---- MODULE Spec2Model ----
(***************************************************************************)
(* A model of the `sight` 2D graphics library: the Color value type        *)
(* (lib.rs), the Sight canvas with its dirty flag over a Framebuffer       *)
(* surface (lib.rs), and the glyph cache of TtfFont (ttf.rs).              *)
(*                                                                         *)
(* Floating point values of draw_line are carried as exact fractions       *)
(* (numerator over a common denominator).  With integer end points whose   *)
(* distance is at most 2 every intermediate value is a multiple of 1/4,    *)
(* which f32 represents exactly, so the fractions coincide with the f32    *)
(* values; for longer lines the pixel positions still coincide, the        *)
(* coverage values may differ in the last unit.                            *)
(***************************************************************************)
EXTENDS Integers, Sequences, FiniteSets, TLC

VARIABLES
    width,      \* Sight.width, fixed at construction
    height,     \* Sight.height, fixed at construction
    dirty,      \* Sight.dirty
    fb,         \* the surface: pixel (x, y) -> last packed colour stored
    surface,    \* which Framebuffer implementation the canvas is bound to
    op,         \* the last operation: its name, result and arguments, and for
                \* present() the result of the present() it directly followed
    writes,     \* the write_pixel calls of the last operation, in call order:
                \* <<x, y, what write_pixel returned>>
    flushes,    \* the number of flush calls of the last operation
    cache,      \* TtfFont.cache: (codepoint, size) -> CachedGlyph
    used,       \* the (codepoint, size) pairs looked up since the cache was last empty
    ttf,        \* the last TtfFont operation, with what it rasterized and emitted
    bl,         \* a Color::blend call: its receiver, its argument and its result
    call        \* a call of one of the other routines (image decoder, bitmap font,
                \* draw_ellipse): its name, its arguments, where it stands and
                \* what it returned

canvasVars == <<width, height, dirty, fb, surface, op, writes, flushes>>
ttfVars == <<cache, used, ttf>>
vars == <<width, height, dirty, fb, surface, op, writes, flushes, cache, used, ttf, bl, call>>

-----------------------------------------------------------------------------
(* Bounds *)

MaxDim == 2        \* canvas width and height range over 1..MaxDim
MaxPixels == 4     \* and the canvas holds at most MaxPixels pixels
MaxCoord == 1      \* coordinates handed to drawing calls: -1..MaxCoord
MaxExtent == 1     \* rectangle width and height: 0..MaxExtent
MaxRadius == 1     \* circle radius: -1..MaxRadius
MaxText == 2       \* texts handed to the font hold at most MaxText characters
MaxImage == 2      \* bitmap images are 1..MaxImage pixels wide and high
MaxGlyphs == 2     \* a font description holds at most MaxGlyphs glyph blocks
WordBits == 8      \* the i32 locals of draw_ellipse are carried in words of
                   \* WordBits bits, two's complement
ChanStep == 85     \* blend is sampled at the channel values that are multiples of
                   \* ChanStep, and at 0, 1, 254 and 255

Coords == (0 - 1)..MaxCoord
Extents == 0..MaxExtent
Radii == (0 - 1)..MaxRadius
Dims == {d \in (1..MaxDim) \X (1..MaxDim) : d[1] * d[2] <= MaxPixels}

-----------------------------------------------------------------------------
(* Color (lib.rs) *)

U8(n) == n % 256

rgba(r, g, b, a) == [r |-> r, g |-> g, b |-> b, a |-> a]
rgb(r, g, b) == rgba(r, g, b, 255)

BLACK == rgb(0, 0, 0)
WHITE == rgb(255, 255, 255)
RED == rgb(255, 0, 0)

\* A u32 is held as its four bytes, most significant first (a 32-bit value
\* with the top bit set does not fit the checker's integers):
\* (a << 24) | (r << 16) | (g << 8) | b
to_u32(c) == <<c.a, c.r, c.g, c.b>>
ZeroU32 == <<0, 0, 0, 0>>

\* the two early returns exchanged
blend_swapped(c, background) ==
    IF c.a = 255 THEN background
    ELSE IF c.a = 0 THEN c
    ELSE [r |-> U8((c.r * c.a + background.r * (255 - c.a)) \div 255),
          g |-> U8((c.g * c.a + background.g * (255 - c.a)) \div 255),
          b |-> U8((c.b * c.a + background.b * (255 - c.a)) \div 255),
          a |-> 255]

blend(c, background) ==
    IF c.a = 255 THEN c
    ELSE IF c.a = 0 THEN background
    ELSE [r |-> U8((c.r * c.a + background.r * (255 - c.a)) \div 255),
          g |-> U8((c.g * c.a + background.g * (255 - c.a)) \div 255),
          b |-> U8((c.b * c.a + background.b * (255 - c.a)) \div 255),
          a |-> 255]

-----------------------------------------------------------------------------
(* The Framebuffer surface.  write_pixel stores the colour and reports      *)
(* either always true or whether the stored value changed.                  *)

Pixels(w, h) == (0..(w - 1)) \X (0..(h - 1))

write_pixel(f, x, y, c) ==
    [fb |-> [f EXCEPT ![<<x, y>>] = c],
     ok |-> IF surface = "always" THEN TRUE ELSE f[<<x, y>>] # c]

-----------------------------------------------------------------------------
(* The canvas.  A drawing routine is carried through a record st of the     *)
(* fields it changes: the surface contents, the dirty flag and the log of   *)
(* write_pixel calls.                                                       *)

Start == [fb |-> fb, dirty |-> dirty, writes |-> <<>>]

OutOfBounds(x, y) == x < 0 \/ y < 0 \/ x >= width \/ y >= height

\* marks the canvas dirty before the bounds check
put_pixel_marks_first(st, x, y, color) ==
    IF OutOfBounds(x, y)
    THEN [st EXCEPT !.dirty = TRUE]
    ELSE LET w == write_pixel(st.fb, x, y, to_u32(color))
         IN  [fb |-> w.fb,
              dirty |-> TRUE,
              writes |-> Append(st.writes, <<x, y, w.ok>>)]

\* ignores what write_pixel returns
put_pixel_ignores_result(st, x, y, color) ==
    IF OutOfBounds(x, y)
    THEN st
    ELSE LET w == write_pixel(st.fb, x, y, to_u32(color))
         IN  [fb |-> w.fb,
              dirty |-> TRUE,
              writes |-> Append(st.writes, <<x, y, w.ok>>)]

\* hands an out-of-bounds pixel to the surface as well
put_pixel_unchecked(st, x, y, color) ==
    IF OutOfBounds(x, y)
    THEN [st EXCEPT !.writes = Append(@, <<x, y, FALSE>>)]
    ELSE LET w == write_pixel(st.fb, x, y, to_u32(color))
         IN  [fb |-> w.fb,
              dirty |-> IF w.ok THEN TRUE ELSE st.dirty,
              writes |-> Append(st.writes, <<x, y, w.ok>>)]

put_pixel(st, x, y, color) ==
    IF OutOfBounds(x, y)
    THEN st
    ELSE LET w == write_pixel(st.fb, x, y, to_u32(color))
         IN  [fb |-> w.fb,
              dirty |-> IF w.ok THEN TRUE ELSE st.dirty,
              writes |-> Append(st.writes, <<x, y, w.ok>>)]

\* alpha is the fraction an / ad, ad > 0
ClampAlpha(an, ad) == IF an < 0 THEN 0 ELSE IF an > ad THEN ad ELSE an

put_pixel_aa(st, x, y, color, an, ad) ==
    IF OutOfBounds(x, y)
    THEN st
    ELSE LET blended_color == rgba(color.r, color.g, color.b,
                                   U8((color.a * ClampAlpha(an, ad)) \div ad))
             final_color == blend(blended_color, BLACK)
             w == write_pixel(st.fb, x, y, to_u32(final_color))
         IN  [fb |-> w.fb,
              dirty |-> IF w.ok THEN TRUE ELSE st.dirty,
              writes |-> Append(st.writes, <<x, y, w.ok>>)]

\* a drawing routine's pixel calls, applied in order
RECURSIVE Run(_, _)
Run(st, calls) ==
    IF calls = <<>> THEN st
    ELSE LET c == Head(calls)
             nxt == IF c.aa
                    THEN put_pixel_aa(st, c.x, c.y, c.color, c.an, c.ad)
                    ELSE put_pixel(st, c.x, c.y, c.color)
         IN  Run(nxt, Tail(calls))

Put(x, y, color) == [aa |-> FALSE, x |-> x, y |-> y, color |-> color, an |-> 1, ad |-> 1]
PutAA(x, y, color, an, ad) == [aa |-> TRUE, x |-> x, y |-> y, color |-> color, an |-> an, ad |-> ad]

-----------------------------------------------------------------------------
(* f32 helpers (FloatExt) on a value v / s, s > 0 *)

Abs(n) == IF n < 0 THEN 0 - n ELSE n
Max(a, b) == IF a > b THEN a ELSE b
Min(a, b) == IF a < b THEN a ELSE b

floor(v, s) == v \div s
fract(v, s) == v % s
\* libm::roundf: to nearest, halves away from zero
round(v, s) == IF v >= 0 THEN (2 * v + s) \div (2 * s)
               ELSE 0 - ((2 * (0 - v) + s) \div (2 * s))
\* `(n / d) as i32`, d > 0: towards zero
trunc_i32(n, d) == IF n >= 0 THEN n \div d ELSE 0 - ((0 - n) \div d)

-----------------------------------------------------------------------------
(* Drawing routines: each yields its put_pixel / put_pixel_aa calls in      *)
(* call order.                                                              *)

\* Sight::clear writes every pixel, row by row, without a bounds check
RECURSIVE clear_from(_, _, _)
clear_from(st, i, pixel) ==
    IF i >= width * height THEN st
    ELSE LET x == i % width
             y == i \div width
             w == write_pixel(st.fb, x, y, pixel)
         IN  clear_from([fb |-> w.fb, dirty |-> st.dirty,
                         writes |-> Append(st.writes, <<x, y, w.ok>>)], i + 1, pixel)

\* starts at the second row
clear_from_second_row(st, color) ==
    [clear_from(st, width, to_u32(color)) EXCEPT !.dirty = TRUE]

clear(st, color) ==
    LET done == clear_from(st, 0, to_u32(color))
    IN  [done EXCEPT !.dirty = TRUE]

\* the two pixels straddling a fractional position, axes swapped when steep
Straddle(steep, x, y, color, a1n, a2n, ad) ==
    IF steep
    THEN <<PutAA(y, x, color, a1n, ad), PutAA(y + 1, x, color, a2n, ad)>>
    ELSE <<PutAA(x, y, color, a1n, ad), PutAA(x, y + 1, color, a2n, ad)>>

RECURSIVE line_loop(_, _, _, _, _, _, _)
line_loop(x, xpxl2, intery, gn2, s, steep, color) ==
    IF x >= xpxl2 THEN <<>>
    ELSE LET y == floor(intery, s)
             frac == fract(intery, s)
         IN  Straddle(steep, x, y, color, s - frac, frac, s)
             \o line_loop(x + 1, xpxl2, intery + gn2, gn2, s, steep, color)

draw_line(p1, p2, color) ==
    LET steep == Abs(p2[2] - p1[2]) > Abs(p2[1] - p1[1])
        \* after the axis swap
        ax0 == IF steep THEN p1[2] ELSE p1[1]
        ay0 == IF steep THEN p1[1] ELSE p1[2]
        ax1 == IF steep THEN p2[2] ELSE p2[1]
        ay1 == IF steep THEN p2[1] ELSE p2[2]
        \* after the end point swap
        x0 == IF ax0 > ax1 THEN ax1 ELSE ax0
        y0 == IF ax0 > ax1 THEN ay1 ELSE ay0
        x1 == IF ax0 > ax1 THEN ax0 ELSE ax1
        y1 == IF ax0 > ax1 THEN ay0 ELSE ay1
        dx == x1 - x0
        dy == y1 - y0
        \* gradient = gn / gd; every value below is in units of 1 / s
        gd == IF dx = 0 THEN 1 ELSE dx
        gn == IF dx = 0 THEN 1 ELSE dy
        s == 2 * gd
        gn2 == 2 * gn
        xend1 == round(x0 * s, s)
        yend1 == y0 * s + gn2 * (xend1 - x0)
        xgap1 == s - fract(x0 * s + gd, s)
        xpxl1 == xend1
        ypxl1 == floor(yend1, s)
        intery == yend1 + gn2
        xend2 == round(x1 * s, s)
        yend2 == y1 * s + gn2 * (xend2 - x1)
        xgap2 == fract(x1 * s + gd, s)
        xpxl2 == xend2
        ypxl2 == floor(yend2, s)
    IN  Straddle(steep, xpxl1, ypxl1, color,
                 (s - fract(yend1, s)) * xgap1, fract(yend1, s) * xgap1, s * s)
        \o Straddle(steep, xpxl2, ypxl2, color,
                    (s - fract(yend2, s)) * xgap2, fract(yend2, s) * xgap2, s * s)
        \o line_loop(xpxl1 + 1, xpxl2, intery, gn2, s, steep, color)

RECURSIVE fill_rect_rows(_, _, _, _, _)
fill_rect_rows(y, y2, x1, x2, color) ==
    IF y >= y2 THEN <<>>
    ELSE [i \in 1..Max(x2 - x1, 0) |-> Put(x1 + i - 1, y, color)]
         \o fill_rect_rows(y + 1, y2, x1, x2, color)

\* A u32 is carried as its two 16-bit halves, so that values of 2^31 and
\* more can be written down.
u32(n) == [hi |-> n \div 65536, lo |-> n % 65536]

U32_MAX == [hi |-> 65535, lo |-> 65535]

\* `v as i32` of a u32: the same 32 bits read as two's complement
as_i32(v) ==
    IF v.hi >= 32768 THEN (v.hi - 65536) * 65536 + v.lo
    ELSE v.hi * 65536 + v.lo

fill_rect(rect, color) ==
    LET x1 == Max(rect.x, 0)
        y1 == Max(rect.y, 0)
        x2 == Min(rect.x + as_i32(rect.width), width)
        y2 == Min(rect.y + as_i32(rect.height), height)
    IN  fill_rect_rows(y1, y2, x1, x2, color)

draw_circle_points(center, x, y, color) ==
    << Put(center[1] + x, center[2] + y, color),
       Put(center[1] + y, center[2] + x, color),
       Put(center[1] - y, center[2] + x, color),
       Put(center[1] - x, center[2] + y, color),
       Put(center[1] - x, center[2] - y, color),
       Put(center[1] - y, center[2] - x, color),
       Put(center[1] + y, center[2] - x, color),
       Put(center[1] + x, center[2] - y, color) >>

RECURSIVE circle_loop(_, _, _, _, _)
circle_loop(center, x, y, err, color) ==
    IF x < y THEN <<>>
    ELSE LET y2 == IF err <= 0 THEN y + 1 ELSE y
             e2 == IF err <= 0 THEN err + 2 * y2 + 1 ELSE err
             x3 == IF e2 > 0 THEN x - 1 ELSE x
             e3 == IF e2 > 0 THEN e2 - (2 * x3 + 1) ELSE e2
         IN  draw_circle_points(center, x, y, color)
             \o circle_loop(center, x3, y2, e3, color)

draw_circle(center, radius, color) == circle_loop(center, radius, 0, 0, color)

\* `for x in (x_left as i32)..=(x_right as i32) { put_pixel(x, y, color) }`
triangle_row(xl, xr, y, color) ==
    [i \in 1..Max(xr - xl + 1, 0) |-> Put(xl + i - 1, y, color)]

\* the rows k..dy of a flat triangle that starts on row y0; after k additions
\* of the slopes ml/dy and mr/dy, x_left = l0 + k*ml/dy and
\* x_right = r0 + k*mr/dy.  The vertex rows of the model lie in 0..2, so dy
\* is 1 or 2 and every f32 value here is a multiple of 1/2, held exactly.
RECURSIVE triangle_rows(_, _, _, _, _, _, _, _)
triangle_rows(k, dy, y0, l0, ml, r0, mr, color) ==
    IF k > dy THEN <<>>
    ELSE triangle_row(trunc_i32(l0 * dy + k * ml, dy),
                      trunc_i32(r0 * dy + k * mr, dy), y0 + k, color)
         \o triangle_rows(k + 1, dy, y0, l0, ml, r0, mr, color)

fill_flat_bottom_triangle(top, left, right, color) ==
    LET l == IF left[1] > right[1] THEN right ELSE left
        r == IF left[1] > right[1] THEN left ELSE right
        dy == l[2] - top[2]
    IN  IF dy = 0 THEN <<>>
        ELSE triangle_rows(0, dy, top[2], top[1], l[1] - top[1],
                           top[1], r[1] - top[1], color)

fill_flat_top_triangle(left, right, bottom, color) ==
    LET l == IF left[1] > right[1] THEN right ELSE left
        r == IF left[1] > right[1] THEN left ELSE right
        dy == bottom[2] - l[2]
    IN  IF dy = 0 THEN <<>>
        ELSE triangle_rows(0, dy, l[2], l[1], bottom[1] - l[1],
                           r[1], bottom[1] - r[1], color)

\* `points.swap(i, j)` when points[i].y > points[j].y
swap_if_below(points, i, j) ==
    IF points[i][2] > points[j][2]
    THEN [points EXCEPT ![i] = points[j], ![j] = points[i]]
    ELSE points

fill_triangle(p1, p2, p3, color) ==
    LET points == swap_if_below(swap_if_below(swap_if_below(<<p1, p2, p3>>, 1, 2), 2, 3), 1, 2)
        top == points[1]
        mid == points[2]
        bottom == points[3]
    IN  IF mid[2] = bottom[2] THEN fill_flat_bottom_triangle(top, mid, bottom, color)
        ELSE IF top[2] = mid[2] THEN fill_flat_top_triangle(top, mid, bottom, color)
        ELSE LET split_x == top[1] + trunc_i32((mid[2] - top[2]) * (bottom[1] - top[1]),
                                               bottom[2] - top[2])
                 split == <<split_x, mid[2]>>
             IN  fill_flat_bottom_triangle(top, mid, split, color)
                 \o fill_flat_top_triangle(mid, split, bottom, color)

-----------------------------------------------------------------------------
(* TtfFont (ttf.rs).  The font bytes are read through ttf_parser::Face and  *)
(* the coverage bitmap comes from ab_glyph_rasterizer; both are given here  *)
(* as the tables of one small font.                                         *)

NL == 10                     \* '\n'
CharA == 65                  \* a glyph with an outline
CharDash == 45               \* a glyph whose bounding box has no height
CharSpace == 32              \* a glyph without outline: no bounding box
CharNone == 63               \* no glyph in the font

units_per_em == 2

\* Face::glyph_index
glyph_index(ch) == ch \in {CharA, CharDash, CharSpace}

\* Face::glyph_hor_advance, in font units
glyph_hor_advance(ch) ==
    IF ch = CharA THEN 3 ELSE IF ch = CharDash THEN 2 ELSE 1

\* Face::glyph_bounding_box: none for a glyph without outline
has_bounding_box(ch) == ch \in {CharA, CharDash}

glyph_bounding_box(ch) ==
    IF ch = CharA
    THEN [x_min |-> 0 - 1, y_min |-> 0, x_max |-> 2, y_max |-> 3]
    ELSE [x_min |-> 0, y_min |-> 1, x_max |-> 2, y_max |-> 1]

\* the coverage the rasterizer reports for pixel `index` of the glyph, as
\* (alpha * 255) as u8
coverage(ch, size, index) ==
    LET k == (index + size) % 3
    IN  IF k = 0 THEN 255 ELSE IF k = 1 THEN 128 ELSE 0

\* f32 -> integer casts of n / d, d > 0
ceil_u32(n, d) == IF n <= 0 THEN 0 ELSE 0 - ((0 - n) \div d)
trunc_u32(n, d) == IF n <= 0 THEN 0 ELSE n \div d

None == [some |-> FALSE]
Some(g) == [some |-> TRUE, glyph |-> g]

rasterize_glyph(ch, size) ==
    IF ~glyph_index(ch) THEN None
    ELSE IF ~has_bounding_box(ch) THEN None
    ELSE LET bbox == glyph_bounding_box(ch)
             \* scale = size / units_per_em
             h_advance == trunc_u32(glyph_hor_advance(ch) * size, units_per_em)
             bearing_x == trunc_i32(bbox.x_min * size, units_per_em)
             bearing_y == trunc_i32(bbox.y_max * size, units_per_em)
             w == ceil_u32((bbox.x_max - bbox.x_min) * size, units_per_em)
             h == ceil_u32((bbox.y_max - bbox.y_min) * size, units_per_em)
         IN  IF w = 0 \/ h = 0
             THEN Some([bitmap |-> <<>>, width |-> 0, height |-> 0,
                        bearing_x |-> bearing_x, bearing_y |-> bearing_y,
                        advance |-> h_advance])
             ELSE Some([bitmap |-> [i \in 1..(w * h) |-> coverage(ch, size, i - 1)],
                        width |-> w, height |-> h,
                        bearing_x |-> bearing_x, bearing_y |-> bearing_y,
                        advance |-> h_advance])

EmptyCache == <<>>

contains_key(c, key) == key \in DOMAIN c

\* keeps the new entry only
insert_evicting(c, key, glyph) == [k \in {key} |-> glyph]

insert(c, key, glyph) ==
    [k \in (DOMAIN c) \cup {key} |-> IF k = key THEN glyph ELSE c[k]]

\* a cache miss: `if let Some(glyph) = self.rasterize_glyph(ch, size) { insert }`
\* on a record t holding the cache and the log of rasterize_glyph runs; r is
\* what rasterize_glyph returned
miss(t, key, r) ==
    [t EXCEPT !.cache = IF r.some THEN insert(@, key, r.glyph) ELSE @,
              !.rasterized = Append(@, key),
              !.looked = @ \cup {key}]

\* `if !self.cache.contains_key(&key) { ... }`
lookup(t, ch, size) ==
    IF contains_key(t.cache, <<ch, size>>)
    THEN [t EXCEPT !.looked = @ \cup {<<ch, size>>}]
    ELSE miss(t, <<ch, size>>, rasterize_glyph(ch, size))

\* the set_pixel calls of one glyph at the pen position, row by row
RECURSIVE glyph_pixels(_, _, _, _, _)
glyph_pixels(glyph, idx, current_x, current_y, color) ==
    IF idx >= glyph.width * glyph.height THEN <<>>
    ELSE LET row == idx \div glyph.width
             col == idx % glyph.width
             alpha == glyph.bitmap[idx + 1]
             px == current_x + col + glyph.bearing_x
             py == current_y - glyph.bearing_y + row
         IN  (IF alpha > 0 /\ alpha > 128 THEN <<<<px, py, color>>>> ELSE <<>>)
             \o glyph_pixels(glyph, idx + 1, current_x, current_y, color)

\* the glyph under `key`, if cached, drawn at the pen, which then advances
draw_cached(t1, key, color) ==
    IF contains_key(t1.cache, key)
    THEN [t1 EXCEPT !.pixels = @ \o glyph_pixels(t1.cache[key], 0, t1.current_x,
                                                 t1.current_y, color),
                    !.current_x = @ + t1.cache[key].advance]
    ELSE t1

RECURSIVE draw_text_from(_, _, _, _, _, _)
draw_text_from(t, text, x, y, size, color) ==
    IF text = <<>> THEN t
    ELSE IF Head(text) = NL
         THEN draw_text_from([t EXCEPT !.current_x = x, !.current_y = @ + size],
                             Tail(text), x, y, size, color)
         ELSE draw_text_from(draw_cached(lookup(t, Head(text), size),
                                         <<Head(text), size>>, color),
                             Tail(text), x, y, size, color)

TtfStart(c) ==
    [cache |-> c, rasterized |-> <<>>, looked |-> {}, pixels |-> <<>>,
     current_x |-> 0, current_y |-> 0, width |-> 0]

draw_text(t, text, x, y, size, color) ==
    draw_text_from([t EXCEPT !.current_x = x, !.current_y = y], text, x, y, size, color)

draw_text_bold(t, text, x, y, size, color) ==
    draw_text(draw_text(t, text, x, y, size, color), text, x + 1, y, size, color)

\* the advance of the glyph under `key`, if cached, added to the width
add_advance(t1, key) ==
    IF contains_key(t1.cache, key)
    THEN [t1 EXCEPT !.width = @ + t1.cache[key].advance]
    ELSE t1

RECURSIVE text_width_from(_, _, _)
text_width_from(t, text, size) ==
    IF text = <<>> THEN t
    ELSE IF Head(text) = NL
         THEN text_width_from(t, Tail(text), size)
         ELSE text_width_from(add_advance(lookup(t, Head(text), size),
                                          <<Head(text), size>>),
                              Tail(text), size)

text_width(t, text, size) == text_width_from(t, text, size)

clear_cache(c) == EmptyCache

-----------------------------------------------------------------------------
(* The canvas as a state machine: one action per public operation *)

TRANSPARENT == rgba(0, 0, 0, 0)
Colors == {BLACK, TRANSPARENT}
Points == Coords \X Coords

NoArgs == <<>>

Called(name, res, args) ==
    [name |-> name, res |-> res, args |-> args,
     after_present |-> IF name = "present" /\ op.name = "present" THEN op.res ELSE "none"]

BlendIdle == bl = [called |-> FALSE]

CallIdle == call = [name |-> "none"]

TtfIdle ==
    /\ BlendIdle
    /\ CallIdle
    /\ cache = EmptyCache
    /\ used = {}
    /\ ttf = [name |-> "from_bytes"]

Sight_new ==
    /\ TtfIdle
    /\ \E d \in Dims :
        /\ width = d[1]
        /\ height = d[2]
        /\ fb = [p \in Pixels(d[1], d[2]) |-> ZeroU32]
    /\ surface \in {"always", "changed"}
    /\ dirty = FALSE
    /\ op = [name |-> "new", res |-> "ok", args |-> NoArgs, after_present |-> "none"]
    /\ writes = <<>>
    /\ flushes = 0

\* a drawing call: the canvas fields after it, and what it did to the surface
Drawn(name, args, st) ==
    /\ fb' = st.fb
    /\ dirty' = st.dirty
    /\ writes' = st.writes
    /\ flushes' = 0
    /\ op' = Called(name, "ok", args)
    /\ UNCHANGED <<width, height, surface>>
    /\ UNCHANGED <<cache, used, ttf, bl, call>>

Clear ==
    \E color \in Colors :
        \E st \in {clear(Start, color)} : Drawn("clear", <<color>>, st)

PutPixel ==
    \E x \in Coords, y \in Coords, color \in Colors :
        \E st \in {put_pixel(Start, x, y, color)} : Drawn("put_pixel", <<x, y, color>>, st)

DrawLine ==
    \E p1 \in Points, p2 \in Points :
        \E st \in {Run(Start, draw_line(p1, p2, BLACK))} : Drawn("draw_line", NoArgs, st)

FillRect ==
    \E x \in Coords, y \in Coords, w \in Extents, h \in Extents :
        LET rect == [x |-> x, y |-> y, width |-> u32(w), height |-> u32(h)]
        IN  \E st \in {Run(Start, fill_rect(rect, BLACK))} : Drawn("fill_rect", NoArgs, st)

\* flushes without looking at the dirty flag
present_always_flushes(flush_ok) ==
    IF ~flush_ok
    THEN [dirty |-> dirty, flushes |-> 1, res |-> "err"]
    ELSE [dirty |-> FALSE, flushes |-> 1, res |-> "ok"]

\* clears the dirty flag before the flush
present_clears_before_flush(flush_ok) ==
    IF ~dirty
    THEN [dirty |-> dirty, flushes |-> 0, res |-> "ok"]
    ELSE IF ~flush_ok
         THEN [dirty |-> FALSE, flushes |-> 1, res |-> "err"]
         ELSE [dirty |-> FALSE, flushes |-> 1, res |-> "ok"]

\* flushes only when dirty
force_present_checks_dirty(flush_ok) ==
    IF ~dirty
    THEN [dirty |-> dirty, flushes |-> 0, res |-> "ok"]
    ELSE IF ~flush_ok
         THEN [dirty |-> dirty, flushes |-> 1, res |-> "err"]
         ELSE [dirty |-> FALSE, flushes |-> 1, res |-> "ok"]

\* present(): flush only when dirty; the flush may fail
present(flush_ok) ==
    IF ~dirty
    THEN [dirty |-> dirty, flushes |-> 0, res |-> "ok"]
    ELSE IF ~flush_ok
         THEN [dirty |-> dirty, flushes |-> 1, res |-> "err"]
         ELSE [dirty |-> FALSE, flushes |-> 1, res |-> "ok"]

force_present(flush_ok) ==
    IF ~flush_ok
    THEN [dirty |-> dirty, flushes |-> 1, res |-> "err"]
    ELSE [dirty |-> FALSE, flushes |-> 1, res |-> "ok"]

Presented(name, r) ==
    /\ dirty' = r.dirty
    /\ flushes' = r.flushes
    /\ writes' = <<>>
    /\ op' = Called(name, r.res, NoArgs)
    /\ UNCHANGED <<width, height, fb, surface>>
    /\ UNCHANGED <<cache, used, ttf, bl, call>>

Present == \E flush_ok \in BOOLEAN : Presented("present", present(flush_ok))

ForcePresent == \E flush_ok \in BOOLEAN : Presented("force_present", force_present(flush_ok))

Init == Sight_new

Next ==
    \/ Clear
    \/ PutPixel
    \/ DrawLine
    \/ FillRect
    \/ Present
    \/ ForcePresent

Spec == Init /\ [][Next]_vars

-----------------------------------------------------------------------------
(* A single drawing call on a newly constructed canvas, with the call's     *)
(* arguments recorded.                                                      *)

LineColors == {WHITE, rgba(255, 0, 0, 128)}

CallDrawLine ==
    /\ op.name = "new"
    /\ \E p1 \in Points, p2 \in Points, color \in LineColors :
        \E st \in {Run(Start, draw_line(p1, p2, color))} :
            Drawn("draw_line", <<p1, p2, color>>, st)

CallDrawCircle ==
    /\ op.name = "new"
    /\ \E center \in Points, radius \in Radii :
        \E st \in {Run(Start, draw_circle(center, radius, WHITE))} :
            Drawn("draw_circle", <<center, radius, WHITE>>, st)

\* rectangle widths and heights: 0..MaxExtent + 1 and u32::MAX
RectExtents == {u32(n) : n \in 0..(MaxExtent + 1)} \cup {U32_MAX}

CallFillRect ==
    /\ op.name = "new"
    /\ \E x \in Coords, y \in Coords, w \in RectExtents, h \in RectExtents :
        LET rect == [x |-> x, y |-> y, width |-> w, height |-> h]
        IN  \E st \in {Run(Start, fill_rect(rect, WHITE))} :
                Drawn("fill_rect", <<rect, WHITE>>, st)

\* triangle vertices: x over the coordinates, y over the rows 0..2
Vertices == Coords \X (0..2)

CallFillTriangle ==
    /\ op.name = "new"
    /\ \E p1 \in Vertices, p2 \in Vertices, p3 \in Vertices :
        \E st \in {Run(Start, fill_triangle(p1, p2, p3, WHITE))} :
            Drawn("fill_triangle", <<p1, p2, p3, WHITE>>, st)

NextCall ==
    \/ CallDrawLine
    \/ CallDrawCircle
    \/ CallFillRect
    \/ CallFillTriangle

SpecCall == Init /\ [][NextCall]_vars

-----------------------------------------------------------------------------
(* The font as a state machine: one action per public operation of TtfFont  *)

Chars == {CharA, CharDash, CharNone}
Sizes == {1, 2}
Texts == UNION {[1..n -> Chars] : n \in 0..MaxText}

CanvasIdle ==
    /\ width = 1
    /\ height = 1
    /\ fb = [p \in Pixels(1, 1) |-> ZeroU32]
    /\ surface = "always"
    /\ dirty = FALSE
    /\ op = [name |-> "new", res |-> "ok", args |-> NoArgs, after_present |-> "none"]
    /\ writes = <<>>
    /\ flushes = 0

\* TtfFont::from_bytes: the font bytes and an empty cache
TtfFont_from_bytes ==
    /\ CanvasIdle
    /\ TtfIdle

TtfDone(seen, t) ==
    /\ cache' = t.cache
    /\ used' = used \cup t.looked
    /\ ttf' = seen
    /\ UNCHANGED <<width, height, dirty, fb, surface, op, writes, flushes, bl, call>>

\* what the directly preceding operation did, when it was this same draw_text
Before(text, size) ==
    IF ttf.name = "draw_text" /\ ttf.text = text /\ ttf.size = size
    THEN [same |-> TRUE, rasterized |-> ttf.rasterized, pixels |-> ttf.pixels]
    ELSE [same |-> FALSE]

DrawText ==
    \E text \in Texts, size \in Sizes :
        \E t \in {draw_text(TtfStart(cache), text, 0, 0, size, RED)} :
            TtfDone([name |-> "draw_text", text |-> text, size |-> size,
                     rasterized |-> t.rasterized, pixels |-> t.pixels,
                     before |-> Before(text, size)], t)

DrawTextBold ==
    \E text \in Texts, size \in Sizes :
        \E t \in {draw_text_bold(TtfStart(cache), text, 0, 0, size, RED)} :
            TtfDone([name |-> "draw_text_bold", rasterized |-> t.rasterized,
                     pixels |-> t.pixels], t)

TextWidth ==
    \E text \in Texts, size \in Sizes :
        \E t \in {text_width(TtfStart(cache), text, size)} :
            TtfDone([name |-> "text_width", rasterized |-> t.rasterized,
                     ret |-> t.width], t)

ClearCache ==
    /\ cache' = clear_cache(cache)
    /\ used' = {}
    /\ ttf' = [name |-> "clear_cache"]
    /\ UNCHANGED <<width, height, dirty, fb, surface, op, writes, flushes, bl, call>>

InitTtf == TtfFont_from_bytes

NextTtf ==
    \/ DrawText
    \/ DrawTextBold
    \/ TextWidth
    \/ ClearCache

SpecTtf == InitTtf /\ [][NextTtf]_vars

\* text_width on texts of several lines
LineChars == {CharA, CharDash, NL}
LineTexts == UNION {[1..n -> LineChars] : n \in 0..(MaxText + 1)}

TextWidthOfLines ==
    \E text \in LineTexts, size \in Sizes :
        \E t \in {text_width(TtfStart(cache), text, size)} :
            TtfDone([name |-> "text_width", text |-> text, size |-> size,
                     ret |-> t.width], t)

NextTtfLines ==
    \/ TextWidthOfLines
    \/ ClearCache

SpecTtfLines == InitTtf /\ [][NextTtfLines]_vars

-----------------------------------------------------------------------------
(* Color::blend as a function of its two colours *)

Chan == {0, 1, 254, 255} \cup {v \in 0..255 : v % ChanStep = 0}
Ends == {0, 255}

BlendInputs ==
    [c : [r : Chan, g : Ends, b : {128}, a : Chan],
     background : [r : Chan, g : Ends, b : {64}, a : Ends],
     called : {FALSE}]

InitBlend ==
    /\ CanvasIdle
    /\ cache = EmptyCache
    /\ used = {}
    /\ ttf = [name |-> "from_bytes"]
    /\ CallIdle
    /\ bl \in BlendInputs

Blend ==
    /\ ~bl.called
    /\ bl' = [c |-> bl.c, background |-> bl.background, called |-> TRUE,
              out |-> blend(bl.c, bl.background)]
    /\ UNCHANGED <<width, height, dirty, fb, surface, op, writes, flushes, cache, used, ttf, call>>

NextBlend == Blend

SpecBlend == InitBlend /\ [][NextBlend]_vars

-----------------------------------------------------------------------------
(* BmpImage (bmp.rs).  Byte offsets are as in the source (from 0); byte i    *)
(* of a slice is element i + 1 of the sequence.                              *)

Err(e) == [ok |-> FALSE, err |-> e]
Ok(v) == [ok |-> TRUE, v |-> v]

\* the product of two 16-bit values, as a u32
mul16(a, b) ==
    LET t1 == (a \div 256) * b
        low == (t1 % 256) * 256 + (a % 256) * b
    IN  [hi |-> t1 \div 256 + low \div 65536, lo |-> low % 65536]

\* u32::checked_mul
checked_mul(a, b) ==
    IF a.hi > 0 /\ b.hi > 0 THEN Err("overflow")
    ELSE LET wide == IF a.hi > 0 THEN a ELSE b
             narrow == IF a.hi > 0 THEN b ELSE a
             upper == mul16(wide.hi, narrow.lo)
             lower == mul16(wide.lo, narrow.lo)
         IN  IF upper.hi > 0 \/ upper.lo + lower.hi >= 65536 THEN Err("overflow")
             ELSE Ok([hi |-> upper.lo + lower.hi, lo |-> lower.lo])

\* u32::checked_add
checked_add(a, b) ==
    LET low == a.lo + b.lo
        high == a.hi + b.hi + low \div 65536
    IN  IF high >= 65536 THEN Err("overflow")
        ELSE Ok([hi |-> high, lo |-> low % 65536])

\* `(v / 4) * 4` on a u32
round_down_4(v) == [hi |-> v.hi, lo |-> v.lo - (v.lo % 4)]

\* the value of a u32 below 2^31
u32_value(v) == v.hi * 65536 + v.lo

\* `n < v as usize` for a slice length n (below 2^31) and a u32 v
usize_lt(n, v) == v.hi >= 32768 \/ n < u32_value(v)

\* `v as u32` of an i32: the same 32 bits
as_u32(n) ==
    IF n >= 0 THEN u32(n)
    ELSE [hi |-> 65535 - ((0 - n - 1) \div 65536),
          lo |-> 65535 - ((0 - n - 1) % 65536)]

\* i32::unsigned_abs
unsigned_abs(n) ==
    IF n >= 0 THEN u32(n)
    ELSE [hi |-> (0 - (n + 1)) \div 65536 + (((0 - (n + 1)) % 65536) + 1) \div 65536,
          lo |-> (((0 - (n + 1)) % 65536) + 1) % 65536]

\* `bytes.get(offset..offset + n)`
in_slice(bytes, offset, n) == offset + n <= Len(bytes)

read_u16_le(bytes, offset) ==
    IF ~in_slice(bytes, offset, 2) THEN Err("Out of bounds read")
    ELSE Ok(bytes[offset + 1] + 256 * bytes[offset + 2])

read_u32_le(bytes, offset) ==
    IF ~in_slice(bytes, offset, 4) THEN Err("Out of bounds read")
    ELSE Ok([lo |-> bytes[offset + 1] + 256 * bytes[offset + 2],
             hi |-> bytes[offset + 3] + 256 * bytes[offset + 4]])

read_i32_le(bytes, offset) ==
    IF ~in_slice(bytes, offset, 4) THEN Err("Out of bounds read")
    ELSE Ok(as_i32(read_u32_le(bytes, offset).v))

\* the two loops of parse_24bit / parse_32bit: output byte i (from 0) is
\* channel i % 4 of pixel x = (i / 4) % width of output row y = (i / 4) / width
decoded(pixel_data, w, h, top_down, row_size, bytes_per_pixel) ==
    [i \in 1..(w * h * 4) |->
        LET y == ((i - 1) \div 4) \div w
            x == ((i - 1) \div 4) % w
            c == (i - 1) % 4
            actual_y == IF top_down THEN y ELSE h - 1 - y
            pixel_offset == actual_y * row_size + x * bytes_per_pixel
        IN  IF c < bytes_per_pixel THEN pixel_data[pixel_offset + c + 1] ELSE 255]

\* rows are not padded
row_size_unpadded(img_width) ==
    checked_mul(img_width, u32(3))

\* `(width.checked_mul(3).and_then(|w| w.checked_add(3))? / 4) * 4`
row_size_24(img_width) ==
    LET m == checked_mul(img_width, u32(3))
        a == IF m.ok THEN checked_add(m.v, u32(3)) ELSE m
    IN  IF a.ok THEN Ok(round_down_4(a.v)) ELSE a

\* the rest of parse_24bit and parse_32bit, from `required_size` on
parse_rows(pixel_data, img_width, img_height, top_down, row_size, bytes_per_pixel) ==
    LET required_size == checked_mul(row_size, img_height)
    IN  IF ~required_size.ok THEN Err("Data size overflow")
        ELSE IF usize_lt(Len(pixel_data), required_size.v)
        THEN Err("Insufficient pixel data")
        ELSE Ok(decoded(pixel_data, u32_value(img_width), u32_value(img_height), top_down,
                        u32_value(row_size), bytes_per_pixel))

parse_24bit(pixel_data, img_width, img_height, top_down) ==
    LET row_size == row_size_24(img_width)
    IN  IF ~row_size.ok THEN Err("Row size overflow")
        ELSE parse_rows(pixel_data, img_width, img_height, top_down, row_size.v, 3)

parse_32bit(pixel_data, img_width, img_height, top_down) ==
    LET row_size == checked_mul(img_width, u32(4))
    IN  IF ~row_size.ok THEN Err("Row size overflow")
        ELSE parse_rows(pixel_data, img_width, img_height, top_down, row_size.v, 4)

\* every compression value is let through
compression_unchecked(compression) == TRUE

\* `compression != 0 && compression != 3` is the rejection
compression_supported(compression) ==
    compression = u32(0) \/ compression = u32(3)

\* from_bytes after the header fields are read
from_fields(bytes, img_width, height_signed, planes, bits_per_pixel, compression, data_offset) ==
    LET img_height == unsigned_abs(height_signed)
        top_down == height_signed < 0
    IN  IF img_width = u32(0) \/ img_height = u32(0) THEN Err("Invalid dimensions")
        ELSE IF planes # 1 THEN Err("Invalid planes")
        ELSE IF ~compression_supported(compression) THEN Err("Compressed BMP not supported")
        ELSE IF data_offset.hi >= 32768 \/ u32_value(data_offset) >= Len(bytes)
        THEN Err("Invalid data offset")
        ELSE LET pixel_data == SubSeq(bytes, u32_value(data_offset) + 1, Len(bytes))
                 bgra_data ==
                    IF bits_per_pixel = 24 THEN parse_24bit(pixel_data, img_width, img_height, top_down)
                    ELSE IF bits_per_pixel = 32 THEN parse_32bit(pixel_data, img_width, img_height, top_down)
                    ELSE Err("Only 24 or 32-bit BMP supported")
             IN  IF ~bgra_data.ok THEN bgra_data
                 ELSE Ok([width |-> img_width, height |-> img_height, data |-> bgra_data.v])

from_bytes(bytes) ==
    IF Len(bytes) < 54 THEN Err("File too small")
    ELSE IF bytes[1] # 66 \/ bytes[2] # 77 THEN Err("Not a BMP file")
    ELSE LET dib_header_size == read_u32_le(bytes, 14)
             img_width == read_i32_le(bytes, 18)
             height_signed == read_i32_le(bytes, 22)
             planes == read_u16_le(bytes, 26)
             bits_per_pixel == read_u16_le(bytes, 28)
             compression == read_u32_le(bytes, 30)
             data_offset == read_u32_le(bytes, 10)
         IN  IF ~dib_header_size.ok THEN dib_header_size
             ELSE IF dib_header_size.v.hi = 0 /\ dib_header_size.v.lo < 40
             THEN Err("Unsupported BMP format")
             ELSE IF ~img_width.ok THEN img_width
             ELSE IF ~height_signed.ok THEN height_signed
             ELSE IF ~planes.ok THEN planes
             ELSE IF ~bits_per_pixel.ok THEN bits_per_pixel
             ELSE IF ~compression.ok THEN compression
             ELSE IF ~data_offset.ok THEN data_offset
             ELSE from_fields(bytes, as_u32(img_width.v), height_signed.v, planes.v,
                              bits_per_pixel.v, compression.v, data_offset.v)

-----------------------------------------------------------------------------
(* BmpImage::from_bytes on bitmap files built from their header fields       *)

le16(n) == <<n % 256, n \div 256>>
le32(v) == le16(v.lo) \o le16(v.hi)
Zeros(n) == [i \in 1..n |-> 0]

\* channel c (0 first) of pixel x of row r of the source image: all red
\* (bytes 0, 0, 255), or a different byte for every pixel and channel
source_byte(pattern, w, x, r, c) ==
    IF pattern = "red" THEN (IF c = 2 THEN 255 ELSE 0)
    ELSE 16 * (r * w + x) + c + 1

\* row r of the pixel array: the pixels' bytes, padded to a multiple of 4
file_row(f, r) ==
    LET n == IF f.bits = 32 THEN 4 ELSE 3
        raw == [i \in 1..(f.w * n) |->
                    source_byte(f.pattern, f.w, (i - 1) \div n, r, (i - 1) % n)]
    IN  raw \o Zeros((4 - (Len(raw) % 4)) % 4)

RECURSIVE file_rows(_, _)
file_rows(f, r) ==
    IF r >= f.h THEN <<>> ELSE file_row(f, r) \o file_rows(f, r + 1)

\* the file: 14 bytes of file header, 40 bytes of DIB header, the pixel array
bmp_file(f) ==
    LET rows == file_rows(f, 0)
        data == IF f.defect = "truncated" THEN SubSeq(rows, 1, Len(rows) - 1) ELSE rows
        file ==
            <<IF f.defect = "magic" THEN 88 ELSE 66, 77>>
            \o le32(u32(54 + Len(data)))
            \o Zeros(4)
            \o le32(u32(IF f.defect = "offset" THEN 54 + Len(data) ELSE 54))
            \o le32(u32(IF f.defect = "dib" THEN 12 ELSE 40))
            \o le32(as_u32(IF f.defect = "zero_width" THEN 0
                           ELSE IF f.defect = "negative_width" THEN 0 - 1 ELSE f.w))
            \o le32(as_u32(IF f.top_down THEN 0 - f.h ELSE f.h))
            \o le16(IF f.defect = "planes" THEN 2 ELSE 1)
            \o le16(f.bits)
            \o le32(f.compression)
            \o Zeros(20)
            \o data
    IN  IF f.defect = "short" THEN SubSeq(file, 1, 53) ELSE file

Defects == {"none", "short", "magic", "dib", "zero_width", "negative_width",
            "planes", "offset", "truncated"}

BmpFields ==
    [defect : Defects, w : 1..MaxImage, h : 1..MaxImage, top_down : BOOLEAN,
     bits : {8, 24, 32}, compression : {u32(0), u32(1), u32(3)},
     pattern : {"red", "index"}]

InitBmp ==
    /\ CanvasIdle
    /\ BlendIdle
    /\ cache = EmptyCache
    /\ used = {}
    /\ ttf = [name |-> "from_bytes"]
    /\ \E f \in BmpFields :
        call = [name |-> "BmpImage::from_bytes", f |-> f, bytes |-> bmp_file(f),
                done |-> FALSE]

BmpFromBytes ==
    /\ call.name = "BmpImage::from_bytes"
    /\ ~call.done
    /\ call' = [name |-> call.name, f |-> call.f, bytes |-> call.bytes,
                done |-> TRUE, ret |-> from_bytes(call.bytes)]
    /\ UNCHANGED <<width, height, dirty, fb, surface, op, writes, flushes, cache, used, ttf, bl>>

NextBmp == BmpFromBytes

SpecBmp == InitBmp /\ [][NextBmp]_vars

-----------------------------------------------------------------------------
(* The bitmap font (bdf.rs).  A font description is a sequence of lines; a  *)
(* line is carried trimmed and split at its whitespace: the keyword, and     *)
(* the words after it, each word a sequence of one-character strings.  A     *)
(* line of the bitmap section has the keyword "" and one word of hex digits. *)

Digits == <<"0", "1", "2", "3", "4", "5", "6", "7", "8", "9">>
HexDigits == Digits \o <<"A", "B", "C", "D", "E", "F">>

\* the value of digit character c in the digit list ds, or -1
digit_value(ds, c) ==
    IF \E i \in 1..Len(ds) : ds[i] = c
    THEN (CHOOSE i \in 1..Len(ds) : ds[i] = c) - 1
    ELSE 0 - 1

\* the number written by the digit characters word[i..], after acc, in the
\* given base; -1 when a character is no digit
RECURSIVE digits_value(_, _, _, _)
digits_value(ds, word, i, acc) ==
    IF i > Len(word) THEN acc
    ELSE IF digit_value(ds, word[i]) < 0 THEN 0 - 1
    ELSE digits_value(ds, word, i + 1, acc * Len(ds) + digit_value(ds, word[i]))

\* `str::parse::<u32>().unwrap_or(0)` on the words of the rest of a line: a
\* rest of several words holds whitespace and does not parse
parse_u32(rest) ==
    IF Len(rest) # 1 THEN 0
    ELSE LET word == IF Head(rest) # <<>> /\ Head(Head(rest)) = "+"
                     THEN Tail(Head(rest)) ELSE Head(rest)
         IN  IF word = <<>> \/ digits_value(Digits, word, 1, 0) < 0 THEN 0
             ELSE digits_value(Digits, word, 1, 0)

\* `str::parse::<i32>().unwrap_or(0)`
parse_i32(rest) ==
    IF Len(rest) = 1 /\ Head(rest) # <<>> /\ Head(Head(rest)) = "-"
    THEN 0 - parse_u32(<<Tail(Head(rest))>>)
    ELSE parse_u32(rest)

\* `u8::from_str_radix(&hex_str[i..end], 16)` for each pair of characters of
\* a bitmap line, a last single character on its own; what does not parse
\* is left out
RECURSIVE hex_bytes(_, _)
hex_bytes(word, i) ==
    IF i > Len(word) THEN <<>>
    ELSE LET pair == SubSeq(word, i, Min(i + 1, Len(word)))
             byte == digits_value(HexDigits, pair, 1, 0)
         IN  (IF byte < 0 THEN <<>> ELSE <<byte>>) \o hex_bytes(word, i + 2)

NewGlyph ==
    [encoding |-> 0, bitmap |-> <<>>, width |-> 0, height |-> 0,
     offset_x |-> 0, offset_y |-> 0, device_width |-> 0]

\* the locals of parse_bdf_font before the first line
ParseStart ==
    [font |-> [font_name |-> <<>>, size |-> 0, bounding_box |-> <<0, 0, 0, 0>>,
               glyphs |-> <<>>],
     current_glyph |-> None, in_bitmap |-> FALSE, bitmap_data |-> <<>>]

\* every glyph is kept
retained_any(glyph) == TRUE

\* `if glyph.encoding < 256`
retained(glyph) == glyph.encoding < 256

\* A keyword line of the inputs always carries the words its keyword asks
\* for ("FONT x", "BITMAP"); other lines fall through to the bitmap branch.
parse_line(line, st) ==
    LET glyph == st.current_glyph.glyph
        some == st.current_glyph.some
        parts == line.parts
    IN  IF line.key = "FONT" /\ parts # <<>>
        THEN [st EXCEPT !.font.font_name = parts]
        ELSE IF line.key = "SIZE" /\ parts # <<>>
        THEN [st EXCEPT !.font.size = parse_u32(parts)]
        ELSE IF line.key = "FONTBOUNDINGBOX" /\ parts # <<>>
        THEN IF Len(parts) >= 4
             THEN [st EXCEPT !.font.bounding_box =
                      <<parse_u32(<<parts[1]>>), parse_u32(<<parts[2]>>),
                        parse_i32(<<parts[3]>>), parse_i32(<<parts[4]>>)>>]
             ELSE st
        ELSE IF line.key = "STARTCHAR"
        THEN [st EXCEPT !.current_glyph = Some(NewGlyph)]
        ELSE IF line.key = "ENCODING" /\ parts # <<>>
        THEN IF some
             THEN [st EXCEPT !.current_glyph = Some([glyph EXCEPT !.encoding = parse_u32(parts)])]
             ELSE st
        ELSE IF line.key = "DWIDTH" /\ parts # <<>>
        THEN IF some
             THEN [st EXCEPT !.current_glyph =
                      Some([glyph EXCEPT !.device_width = parse_u32(<<parts[1]>>)])]
             ELSE st
        ELSE IF line.key = "BBX" /\ parts # <<>>
        THEN IF some /\ Len(parts) >= 4
             THEN [st EXCEPT !.current_glyph =
                      Some([glyph EXCEPT !.width = parse_u32(<<parts[1]>>),
                                         !.height = parse_u32(<<parts[2]>>),
                                         !.offset_x = parse_i32(<<parts[3]>>),
                                         !.offset_y = parse_i32(<<parts[4]>>)])]
             ELSE st
        ELSE IF line.key = "BITMAP" /\ parts = <<>>
        THEN [st EXCEPT !.in_bitmap = TRUE, !.bitmap_data = <<>>]
        ELSE IF line.key = "ENDCHAR" /\ parts = <<>>
        THEN IF some /\ retained(glyph)
             THEN [st EXCEPT !.font.glyphs =
                                insert(@, glyph.encoding,
                                       [glyph EXCEPT !.bitmap = st.bitmap_data]),
                             !.bitmap_data = <<>>,
                             !.current_glyph = None,
                             !.in_bitmap = FALSE]
             ELSE [st EXCEPT !.current_glyph = None, !.in_bitmap = FALSE]
        ELSE IF st.in_bitmap /\ line.key = ""
        THEN [st EXCEPT !.bitmap_data = @ \o hex_bytes(parts[1], 1)]
        ELSE st

\* the loop of parse_bdf_font over the lines that are not empty
RECURSIVE parse_lines(_, _, _)
parse_lines(data, i, st) ==
    IF i > Len(data) THEN st
    ELSE parse_lines(data, i + 1, parse_line(data[i], st))

parse_bdf_font(data) == Ok(parse_lines(data, 1, ParseStart).font)

\* Font::get_glyph
get_glyph(font, ch) ==
    IF ch \in DOMAIN font.glyphs THEN Some(font.glyphs[ch]) ELSE None

\* Glyph::draw: the set_pixel calls, row by row; bit 7 of a byte is the
\* leftmost column
Glyph_draw(glyph, x, y, color) ==
    LET bytes_per_row == (glyph.width + 7) \div 8
        lit(k) ==
            LET row == (k - 1) \div glyph.width
                col == (k - 1) % glyph.width
                byte == glyph.bitmap[row * bytes_per_row + (col \div 8) + 1]
            IN  (byte \div (2 ^ (7 - (col % 8)))) % 2 # 0
        cells == glyph.width * glyph.height
    IN  [k \in 1..cells |->
            IF lit(k) THEN <<<<x + ((k - 1) % glyph.width), y + ((k - 1) \div glyph.width), color>>>>
            ELSE <<>>]

RECURSIVE concat(_, _)
concat(seqs, i) == IF i > Len(seqs) THEN <<>> ELSE seqs[i] \o concat(seqs, i + 1)

\* Font::draw_char: the set_pixel calls and the advance it returns
Font_draw_char(font, ch, x, y, color) ==
    LET g == get_glyph(font, ch)
    IN  IF g.some
        THEN [pixels |-> concat(Glyph_draw(g.glyph, x, y, color), 1),
              advance |-> g.glyph.width]
        ELSE [pixels |-> <<>>, advance |-> font.bounding_box[1]]

\* Font::text_height
Font_text_height(font) == font.bounding_box[2]

\* the loop of Font::draw_text from character i on, with the pen at
\* (current_x, current_y)
RECURSIVE Font_draw_text_from(_, _, _, _, _, _, _, _)
Font_draw_text_from(font, text, i, x, current_x, current_y, color, pixels) ==
    IF i > Len(text)
    THEN [pixels |-> pixels, current_x |-> current_x, current_y |-> current_y]
    ELSE IF text[i] = NL
    THEN Font_draw_text_from(font, text, i + 1, x, x,
                             current_y + Font_text_height(font), color, pixels)
    ELSE \* one evaluation of draw_char serves both of its results
         LET drawn == Font_draw_char(font, text[i], current_x, current_y, color)
         IN  Font_draw_text_from(font, text, i + 1, x, current_x + drawn.advance,
                                 current_y, color, pixels \o drawn.pixels)

Font_draw_text(font, text, x, y, color) ==
    Font_draw_text_from(font, text, 1, x, x, y, color, <<>>)

\* the advance draw_char returns, in place of the declared width
width_as_drawn(font, ch) ==
    Font_draw_char(font, ch, 0, 0, WHITE).advance

\* what text_width adds for one character
width_of(font, ch) ==
    IF get_glyph(font, ch).some THEN get_glyph(font, ch).glyph.device_width
    ELSE font.bounding_box[1]

\* the loop of Font::text_width from character i on
RECURSIVE Font_text_width_from(_, _, _, _, _)
Font_text_width_from(font, text, i, max_width, current_line_width) ==
    IF i > Len(text) THEN Max(max_width, current_line_width)
    ELSE IF text[i] = NL
    THEN Font_text_width_from(font, text, i + 1, Max(max_width, current_line_width), 0)
    ELSE Font_text_width_from(font, text, i + 1, max_width,
                              current_line_width + width_of(font, text[i]))

Font_text_width(font, text) == Font_text_width_from(font, text, 1, 0, 0)

-----------------------------------------------------------------------------
(* The bitmap font on font descriptions built from glyph blocks              *)

Line(key, parts) == [key |-> key, parts |-> parts]

\* the lines before the glyphs: none, a full header, a bounding box line
\* that is two words short
Headers ==
    { <<>>,
      << Line("FONT", << <<"f">> >>),
         Line("SIZE", << <<"8">> >>),
         Line("FONTBOUNDINGBOX", << <<"3">>, <<"4">>, <<"0">>, <<"-", "1">> >>) >>,
      << Line("FONTBOUNDINGBOX", << <<"3">>, <<"4">> >>) >> }

\* ENCODING values: 'A', one past the 8-bit range, and a word that is no number
Encodings == { <<"6", "5">>, <<"2", "5", "6">>, <<"x">> }

Shapes == {"full", "no_startchar", "no_encoding", "no_endchar"}

\* a glyph block: device width 2, a bitmap of one row and bbx_width columns
\* with every bit set, without the line the shape leaves out
GlyphBlock(encoding, bbx_width, shape) ==
    (IF shape = "no_startchar" THEN <<>> ELSE << Line("STARTCHAR", << <<"g">> >>) >>)
    \o (IF shape = "no_encoding" THEN <<>> ELSE << Line("ENCODING", <<encoding>>) >>)
    \o << Line("DWIDTH", << <<"2">>, <<"0">> >>),
          Line("BBX", << <<Digits[bbx_width + 1]>>, <<"1">>, <<"0">>, <<"0">> >>),
          Line("BITMAP", <<>>),
          Line("", << <<"C", "0">> >>) >>
    \o (IF shape = "no_endchar" THEN <<>> ELSE << Line("ENDCHAR", <<>>) >>)

GlyphBlocks ==
    {GlyphBlock(e, w, sh) : e \in Encodings, w \in {1, 2}, sh \in Shapes}

FontDescriptions ==
    {h \o concat(blocks, 1) :
        h \in Headers, blocks \in UNION {[1..n -> GlyphBlocks] : n \in 0..MaxGlyphs}}

\* texts over 'A', 'B' and '\n'
BdfTexts == UNION {[1..n -> {65, 66, NL}] : n \in 0..(MaxText + 1)}

InitBdf ==
    /\ CanvasIdle
    /\ BlendIdle
    /\ cache = EmptyCache
    /\ used = {}
    /\ ttf = [name |-> "from_bytes"]
    /\ \E data \in FontDescriptions :
        call = [name |-> "parse_bdf_font", data |-> data, done |-> FALSE]

BdfIdle == UNCHANGED <<width, height, dirty, fb, surface, op, writes, flushes, cache, used, ttf, bl>>

ParseBdfFont ==
    /\ call.name = "parse_bdf_font"
    /\ ~call.done
    /\ call' = [name |-> call.name, data |-> call.data, done |-> TRUE,
                ret |-> parse_bdf_font(call.data)]
    /\ BdfIdle

Parsed == call.name = "parse_bdf_font" /\ call.done /\ call.ret.ok

FontTextWidth ==
    /\ Parsed
    /\ \E text \in BdfTexts :
        call' = [name |-> "Font::text_width", font |-> call.ret.v, text |-> text,
                 ret |-> Font_text_width(call.ret.v, text)]
    /\ BdfIdle

FontDrawText ==
    /\ Parsed
    /\ \E text \in BdfTexts, x \in {0, 1} :
        \E d \in {Font_draw_text(call.ret.v, text, x, 0, WHITE)} :
            call' = [name |-> "Font::draw_text", font |-> call.ret.v, text |-> text,
                     x |-> x, y |-> 0, pixels |-> d.pixels,
                     current_x |-> d.current_x, current_y |-> d.current_y]
    /\ BdfIdle

NextBdf ==
    \/ ParseBdfFont
    \/ FontTextWidth
    \/ FontDrawText

SpecBdf == InitBdf /\ [][NextBdf]_vars

\* Glyph::draw on the glyphs of font descriptions whose bitmap sections vary

\* whether `self.bitmap[byte_index]` of Glyph::draw leaves the bitmap for some
\* row and column
index_out_of_bounds(glyph) ==
    \E row \in 0..(glyph.height - 1), col \in 0..(glyph.width - 1) :
        row * ((glyph.width + 7) \div 8) + (col \div 8) >= Len(glyph.bitmap)

\* hex rows of a bitmap section: none, one, two
RowLists == { <<>>, << <<"8", "0">> >>, << <<"C", "0">>, <<"4", "0">> >> }

\* a glyph block of two columns and bbx_height rows, with the given hex rows
\* after its BITMAP line, or without the BITMAP line
BitmapBlock(encoding, bbx_height, rows, bitmap_line) ==
    << Line("STARTCHAR", << <<"g">> >>),
       Line("ENCODING", <<encoding>>),
       Line("BBX", << <<"2">>, <<Digits[bbx_height + 1]>>, <<"0">>, <<"0">> >>) >>
    \o (IF bitmap_line THEN << Line("BITMAP", <<>>) >> ELSE <<>>)
    \o [k \in 1..Len(rows) |-> Line("", <<rows[k]>>)]
    \o << Line("ENDCHAR", <<>>) >>

BitmapBlocks ==
    {BitmapBlock(e, h, rows, b) :
        e \in { <<"6", "5">>, <<"2", "5", "6">> }, h \in {1, 2},
        rows \in RowLists, b \in BOOLEAN}

BitmapDescriptions ==
    {concat(blocks, 1) : blocks \in UNION {[1..n -> BitmapBlocks] : n \in 0..MaxGlyphs}}

InitBitmap ==
    /\ CanvasIdle
    /\ BlendIdle
    /\ cache = EmptyCache
    /\ used = {}
    /\ ttf = [name |-> "from_bytes"]
    /\ \E data \in BitmapDescriptions :
        call = [name |-> "parse_bdf_font", data |-> data, done |-> FALSE]

\* Glyph::draw of a glyph of the parsed font: its set_pixel calls, or the
\* panic of an index past the end of the bitmap
GlyphDraw ==
    /\ Parsed
    /\ \E k \in DOMAIN call.ret.v.glyphs :
        LET glyph == call.ret.v.glyphs[k]
        IN  call' = IF index_out_of_bounds(glyph)
                    THEN [name |-> "Glyph::draw", data |-> call.data, glyph |-> glyph,
                          panicked |-> TRUE]
                    ELSE [name |-> "Glyph::draw", data |-> call.data, glyph |-> glyph,
                          panicked |-> FALSE,
                          pixels |-> concat(Glyph_draw(glyph, 0, 0, WHITE), 1)]
    /\ BdfIdle

NextBitmap ==
    \/ ParseBdfFont
    \/ GlyphDraw

SpecBitmap == InitBitmap /\ [][NextBitmap]_vars

-----------------------------------------------------------------------------
(* draw_ellipse, one loop iteration per step.  An i32 operation whose      *)
(* result leaves the word either panics (a build with overflow checks) or    *)
(* wraps (a build without).  +, - and * commute with wrapping, so a wrapped  *)
(* value is the wrap of the exact one, and a checked computation on values   *)
(* of the word panics exactly when one of its exact intermediate results     *)
(* lies outside the word.                                                    *)

Word == 2 ^ WordBits
Half == Word \div 2

fits(n) == (0 - Half) <= n /\ n < Half
wrap(n) == ((n + Half) % Word) - Half

\* whether a computation with these intermediate results panics
overflows(checks, results) == checks /\ \E n \in results : ~fits(n)

\* the arguments of the four put_pixel calls of one iteration, exact
ellipse_points(center, x, y) ==
    << <<center[1] + x, center[2] + y>>,
       <<center[1] - x, center[2] + y>>,
       <<center[1] + x, center[2] - y>>,
       <<center[1] - x, center[2] - y>> >>

point_fits(pt) == fits(pt[1]) /\ fits(pt[2])

\* the put_pixel calls made: all four, or under overflow checks those before
\* the first whose arguments leave the word
ellipse_puts(points, checks, color) ==
    LET made == IF checks
                THEN {i \in 1..4 : \A j \in 1..i : point_fits(points[j])}
                ELSE 1..4
    IN  [i \in 1..Cardinality(made) |-> Put(wrap(points[i][1]), wrap(points[i][2]), color)]

\* `let rx2 = rx * rx; let ry2 = ry * ry;
\*  let mut p = ry2 - (rx2 * ry) + (rx2 / 4);`
ellipse_locals(rx, ry) ==
    LET rx2 == rx * rx
        ry2 == ry * ry
        a == wrap(rx2) * ry
        b == ry2 - a
        p == b + (wrap(rx2) \div 4)
    IN  [x |-> 0, y |-> ry, rx2 |-> wrap(rx2), ry2 |-> wrap(ry2), p |-> wrap(p),
         results |-> {rx2, ry2, a, b, p}]

\* the loop condition `(ry2 * x) <= (rx2 * y)`
region1_condition(l) ==
    [holds |-> wrap(l.ry2 * l.x) <= wrap(l.rx2 * l.y),
     results |-> {l.ry2 * l.x, l.rx2 * l.y}]

\* `if p < 0 { x += 1; p += ry2 * (2 * x + 1); }
\*  else { x += 1; y -= 1; p += ry2 * (2 * x + 1) - rx2 * (2 * y); }`
region1_update(l) ==
    LET x1 == l.x + 1
        y1 == l.y - 1
        a == 2 * x1
        b == a + 1
        c == l.ry2 * b
        d == 2 * y1
        e == l.rx2 * d
        f == c - e
    IN  IF l.p < 0
        THEN [x |-> wrap(x1), y |-> l.y, p |-> wrap(l.p + c),
              results |-> {x1, a, b, c, l.p + c}]
        ELSE [x |-> wrap(x1), y |-> wrap(y1), p |-> wrap(l.p + f),
              results |-> {x1, y1, a, b, c, d, e, f, l.p + f}]

\* `p = ry2 * (x * x + x) + rx2 * (y - 1) * (y - 1) - rx2 * ry2;`
region2_p(l) ==
    LET a == l.x * l.x
        b == a + l.x
        c == l.ry2 * b
        d == l.y - 1
        e == l.rx2 * d
        f == wrap(e) * d
        g == c + f
        h == l.rx2 * l.ry2
    IN  [p |-> wrap(g - h), results |-> {a, b, c, d, e, f, g, h, g - h}]

\* `if p > 0 { y -= 1; p -= rx2 * (2 * y + 1); }
\*  else { x += 1; y -= 1; p += ry2 * (2 * x + 1) - rx2 * (2 * y + 1); }`
region2_update(l) ==
    LET x1 == l.x + 1
        y1 == l.y - 1
        a == 2 * y1
        b == a + 1
        c == l.rx2 * b
        d == 2 * x1
        e == d + 1
        f == l.ry2 * e
        g == f - c
    IN  IF l.p > 0
        THEN [x |-> l.x, y |-> wrap(y1), p |-> wrap(l.p - c),
              results |-> {y1, a, b, c, l.p - c}]
        ELSE [x |-> wrap(x1), y |-> wrap(y1), p |-> wrap(l.p + g),
              results |-> {x1, y1, a, b, c, d, e, f, g, l.p + g}]

EllipseIdle ==
    /\ CanvasIdle
    /\ TtfIdle

EllipseFrame == UNCHANGED <<width, height, surface, op, flushes, cache, used, ttf, bl>>

EllipseQuiet == UNCHANGED <<fb, dirty, writes>>

EllipseDraws(puts) ==
    \E st \in {Run(Start, puts)} :
        /\ fb' = st.fb
        /\ dirty' = st.dirty
        /\ writes' = st.writes

Ended(pc) ==
    [name |-> "draw_ellipse", pc |-> pc, center |-> call.center,
     rx |-> call.rx, ry |-> call.ry, checks |-> call.checks]

Running(pc, l) ==
    [name |-> "draw_ellipse", pc |-> pc, center |-> call.center,
     rx |-> call.rx, ry |-> call.ry, checks |-> call.checks,
     x |-> l.x, y |-> l.y, rx2 |-> call.rx2, ry2 |-> call.ry2, p |-> l.p]

\* the four put_pixel calls and the update of the locals that end an iteration
EllipseIteration(pc, l) ==
    LET points == ellipse_points(call.center, call.x, call.y)
    IN  /\ EllipseDraws(ellipse_puts(points, call.checks, WHITE))
        /\ call' = IF overflows(call.checks, l.results
                                  \cup {points[i][j] : i \in 1..4, j \in 1..2})
                   THEN Ended("panicked")
                   ELSE Running(pc, l)

\* the locals before the first loop
DrawEllipse ==
    /\ call.name = "none"
    /\ \E center \in Points, rx \in Radii, ry \in Radii, checks \in BOOLEAN :
        \E l \in {ellipse_locals(rx, ry)} :
            call' = IF overflows(checks, l.results)
                    THEN [name |-> "draw_ellipse", pc |-> "panicked", center |-> center,
                          rx |-> rx, ry |-> ry, checks |-> checks]
                    ELSE [name |-> "draw_ellipse", pc |-> "loop1", center |-> center,
                          rx |-> rx, ry |-> ry, checks |-> checks,
                          x |-> l.x, y |-> l.y, rx2 |-> l.rx2, ry2 |-> l.ry2, p |-> l.p]
    /\ EllipseQuiet
    /\ EllipseFrame

\* `while (ry2 * x) <= (rx2 * y) { ... }`, and the assignment to p after it
EllipseRegion1 ==
    /\ call.name = "draw_ellipse"
    /\ call.pc = "loop1"
    /\ \E c \in {region1_condition(call)} :
        IF overflows(call.checks, c.results)
        THEN call' = Ended("panicked") /\ EllipseQuiet
        ELSE IF c.holds
        THEN \E l \in {region1_update(call)} : EllipseIteration("loop1", l)
        ELSE \E l \in {region2_p(call)} :
                /\ EllipseQuiet
                /\ call' = IF overflows(call.checks, l.results)
                           THEN Ended("panicked")
                           ELSE Running("loop2", [x |-> call.x, y |-> call.y, p |-> l.p])
    /\ EllipseFrame

\* `while y >= 0 { ... }`, and the return after it
EllipseRegion2 ==
    /\ call.name = "draw_ellipse"
    /\ call.pc = "loop2"
    /\ IF call.y >= 0
       THEN \E l \in {region2_update(call)} : EllipseIteration("loop2", l)
       ELSE /\ EllipseQuiet
            /\ call' = Ended("returned")
    /\ EllipseFrame

InitEllipse == EllipseIdle

NextEllipse ==
    \/ DrawEllipse
    \/ EllipseRegion1
    \/ EllipseRegion2

\* a call that has started keeps running: its next iteration is taken
SpecEllipse == InitEllipse /\ [][NextEllipse]_vars /\ WF_vars(NextEllipse)

-----------------------------------------------------------------------------
(* Properties of the canvas (Spec)                                          *)

OnCanvas(x, y) == <<x, y>> \in Pixels(width, height)
Written == {<<writes[i][1], writes[i][2]>> : i \in 1..Len(writes)}
SomeWriteReported == \E i \in 1..Len(writes) : writes[i][3]
DrawNames == {"clear", "put_pixel", "draw_line", "fill_rect"}

\* C1: present() calls flush at most once, and a present() that directly
\* follows a present() that returned Ok, with no drawing call in between,
\* calls flush zero times.
C1_PresentFlushesOncePerDirty ==
    op.name = "present" =>
        /\ flushes \in {0, 1}
        /\ op.after_present = "ok" => flushes = 0

C1_Witness ==
    /\ op.name = "present"
    /\ op.after_present = "ok"
    /\ op.res = "ok"
    /\ flushes = 0
    /\ \E p \in DOMAIN fb : fb[p] # ZeroU32

\* C2: put_pixel(x, y, color) with (x, y) outside [0,width) x [0,height)
\* makes no write_pixel call and leaves the dirty flag (and the surface)
\* unchanged.
C2_PutPixelOutsideIsNoOp ==
    [][(op'.name = "put_pixel" /\ ~OnCanvas(op'.args[1], op'.args[2]))
        => (writes' = <<>> /\ dirty' = dirty /\ fb' = fb)]_vars

C2_Witness ==
    /\ op.name = "put_pixel"
    /\ ~OnCanvas(op.args[1], op.args[2])
    /\ writes = <<>>
    /\ ~dirty

\* C3: after clear(color) every pixel of the canvas holds the packed form of
\* color (a, r, g, b from the most significant byte down), clear has handed
\* every pixel to write_pixel exactly once, and the dirty flag is true.
C3_ClearFillsEveryPixel ==
    op.name = "clear" =>
        LET color == op.args[1]
        IN  /\ \A p \in Pixels(width, height) :
                /\ fb[p] = <<color.a, color.r, color.g, color.b>>
                /\ Cardinality({i \in 1..Len(writes) :
                                  <<writes[i][1], writes[i][2]>> = p}) = 1
            /\ Written = Pixels(width, height)
            /\ dirty

C3_Witness ==
    /\ op.name = "clear"
    /\ op.args[1] = BLACK
    /\ width * height > 1
    /\ \A p \in Pixels(width, height) : fb[p] = <<255, 0, 0, 0>>
    /\ dirty

\* C4 as stated: every drawing call on a clean canvas leaves it dirty, and
\* present() on a dirty canvas leaves it clean.
C4_EveryDrawDirtiesEveryPresentCleans ==
    [][/\ (op'.name \in DrawNames /\ ~dirty) => dirty'
       /\ (op'.name = "present" /\ dirty) => ~dirty']_vars

\* C4 as amended: the dirty flag is a boolean; clear always leaves the canvas
\* dirty; any other drawing call on a clean canvas leaves it dirty exactly
\* when one of its write_pixel calls returned true; present() on a dirty
\* canvas leaves it clean exactly when the flush succeeded.
C4_DirtyFollowsReportedWrites ==
    [][/\ dirty' \in BOOLEAN
       /\ op'.name = "clear" => dirty'
       /\ (op'.name \in DrawNames \ {"clear"} /\ ~dirty)
            => (dirty' <=> \E i \in 1..Len(writes') : writes'[i][3])
       /\ (op'.name = "present" /\ dirty)
            => (flushes' = 1 /\ (dirty' <=> op'.res = "err"))]_vars

C4_Witness ==
    /\ op.name \in {"draw_line", "fill_rect"}
    /\ writes # <<>>
    /\ ~SomeWriteReported
    /\ ~dirty

\* C5: when the flush fails during present() on a dirty canvas, present()
\* returns the error and the canvas stays dirty, and a present() directly
\* after it calls flush again.
C5_FailedPresentCanBeRetried ==
    op.name = "present" =>
        /\ op.res = "err" => (dirty /\ flushes = 1)
        /\ op.after_present = "err" => flushes = 1

C5_Witness ==
    /\ op.name = "present"
    /\ op.after_present = "err"
    /\ op.res = "ok"
    /\ flushes = 1
    /\ ~dirty

\* C6: force_present() calls flush exactly once on every call, on a clean
\* as on a dirty canvas; on success the canvas is clean, on failure the error
\* is returned and the dirty flag is as it was.
C6_ForcePresentAlwaysFlushes ==
    [][op'.name = "force_present"
        => /\ flushes' = 1
           /\ op'.res = "ok" => ~dirty'
           /\ op'.res = "err" => dirty' = dirty]_vars

C6_Witness ==
    /\ op.name = "force_present"
    /\ op.res = "err"
    /\ flushes = 1
    /\ ~dirty

\* C21: whatever the arguments of a canvas operation are, every write_pixel
\* call it makes lies on the canvas, 0 <= x < width and 0 <= y < height, and
\* no operation changes width or height.
C21_WritesStayOnCanvas ==
    [][/\ width' = width
       /\ height' = height
       /\ \A i \in DOMAIN writes' :
             /\ 0 <= writes'[i][1] /\ writes'[i][1] < width
             /\ 0 <= writes'[i][2] /\ writes'[i][2] < height]_vars

C21_Witness ==
    /\ op.name = "put_pixel"
    /\ op.args[1] < 0
    /\ op.args[2] >= height
    /\ writes = <<>>
    /\ ~dirty

-----------------------------------------------------------------------------
(* Properties of the glyph cache (SpecTtf)                                  *)

\* the second of two directly consecutive draws of the one character
\* ttf.text[1] at the same size, the first of which missed the cache
SecondDraw ==
    /\ ttf.name = "draw_text"
    /\ Len(ttf.text) = 1
    /\ ttf.before.same
    /\ Len(ttf.before.rasterized) = 1

\* C7: drawing any character twice at one size runs rasterize_glyph once in
\* total (the second draw is served from the cache), and both draws emit the
\* same set_pixel calls.
C7_SecondDrawNeverRasterizes ==
    SecondDraw =>
        /\ Len(ttf.before.rasterized) + Len(ttf.rasterized) = 1
        /\ ttf.pixels = ttf.before.pixels

\* C8: an entry is added to the cache only for a pair that had not been
\* looked up since the cache was last empty; no operation but clear_cache
\* removes or replaces an entry; clear_cache leaves the cache empty.
C8_EntriesAddedOnceNeverEvicted ==
    [][IF ttf'.name = "clear_cache"
       THEN DOMAIN cache' = {}
       ELSE /\ \A k \in DOMAIN cache : k \in DOMAIN cache' /\ cache'[k] = cache[k]
            /\ \A k \in (DOMAIN cache') \ (DOMAIN cache) : k \notin used /\ k \in used']_vars

C8_Witness ==
    /\ ttf.name = "draw_text"
    /\ ttf.text # <<>>
    /\ ttf.rasterized = <<>>
    /\ Cardinality(DOMAIN cache) >= 2
    /\ \A i \in 1..Len(ttf.text) : <<ttf.text[i], ttf.size>> \in DOMAIN cache

-----------------------------------------------------------------------------
(* Properties of Color::blend (SpecBlend)                                   *)

\* C9: c.blend(bg) is c when c.a = 255, bg when c.a = 0, and otherwise has
\* each of r, g, b equal to (c.ch * c.a + bg.ch * (255 - c.a)) / 255, which
\* lies in 0..255, and alpha 255.
C9_BlendFormula ==
    bl.called =>
        LET c == bl.c
            bg == bl.background
            mix(f, b) == (f * c.a + b * (255 - c.a)) \div 255
        IN  IF c.a = 255 THEN bl.out = c
            ELSE IF c.a = 0 THEN bl.out = bg
            ELSE /\ bl.out.r = mix(c.r, bg.r)
                 /\ bl.out.g = mix(c.g, bg.g)
                 /\ bl.out.b = mix(c.b, bg.b)
                 /\ bl.out.a = 255
                 /\ \A ch \in {mix(c.r, bg.r), mix(c.g, bg.g), mix(c.b, bg.b)} : ch \in 0..255

C9_Witness ==
    /\ bl.called
    /\ bl.c.a \notin {0, 255}
    /\ bl.out.r \notin {bl.c.r, bl.background.r}
    /\ bl.out.a = 255

-----------------------------------------------------------------------------
(* Properties of single drawing calls (SpecCall)                            *)

\* C10: draw_line with both end points equal, on a canvas containing the
\* point, writes exactly one pixel: the only surface location written is the
\* end point itself.
C10_DegenerateLineWritesOnePixel ==
    (op.name = "draw_line" /\ op.args[1] = op.args[2]
        /\ OnCanvas(op.args[1][1], op.args[1][2]))
        => Written = {op.args[1]}

\* whether p lies in [start, start + len) for a u32 len; a len of 65536 or
\* more reaches past every coordinate of the model
InSpan(p, start, len) == p >= start /\ (len.hi > 0 \/ p - start < len.lo)

\* the pixels of the canvas that lie in the rectangle
RectOnCanvas(rect) ==
    {p \in Pixels(width, height) :
        InSpan(p[1], rect.x, rect.width) /\ InSpan(p[2], rect.y, rect.height)}

\* some pixel of the rectangle lies off the canvas
Clipped(rect) ==
    /\ rect.width # u32(0)
    /\ rect.height # u32(0)
    /\ \/ rect.x < 0
       \/ rect.y < 0
       \/ rect.width.hi > 0
       \/ rect.height.hi > 0
       \/ rect.x + rect.width.lo > width
       \/ rect.y + rect.height.lo > height

WrittenOnce(p) ==
    Cardinality({i \in 1..Len(writes) : <<writes[i][1], writes[i][2]>> = p}) = 1

\* C11: fill_rect(rect, color) writes each pixel of the intersection of the
\* rectangle with the canvas exactly once and no other pixel; it makes
\* width*height writes when the rectangle lies on the canvas and fewer when
\* it is clipped at a canvas edge.
C11_FillRectWritesIntersectionOnce ==
    op.name = "fill_rect" =>
        LET rect == op.args[1]
        IN  /\ Written = RectOnCanvas(rect)
            /\ \A p \in Written : WrittenOnce(p)
            /\ IF Clipped(rect)
               THEN \/ rect.width.hi > 0
                    \/ rect.height.hi > 0
                    \/ Len(writes) < rect.width.lo * rect.height.lo
               ELSE Len(writes) = as_i32(rect.width) * as_i32(rect.height)

\* C12: fill_triangle with three vertices on one row y writes no pixel when
\* the three x values coincide, and otherwise writes the pixels of row y from
\* the smallest to the largest vertex x (those of them on the canvas).
C12_FlatTriangleWritesRowSpan ==
    (op.name = "fill_triangle" /\ op.args[1][2] = op.args[2][2]
        /\ op.args[2][2] = op.args[3][2])
        => LET y == op.args[1][2]
               lo == Min(op.args[1][1], Min(op.args[2][1], op.args[3][1]))
               hi == Max(op.args[1][1], Max(op.args[2][1], op.args[3][1]))
           IN  IF lo = hi THEN writes = <<>>
               ELSE Written = {p \in Pixels(width, height) :
                                 p[2] = y /\ lo <= p[1] /\ p[1] <= hi}

\* C19: draw_circle with a radius of zero or less, called on a clean canvas,
\* writes no pixel and leaves the canvas clean.
C19_NonPositiveRadiusIsNoOp ==
    (op.name = "draw_circle" /\ op.args[2] <= 0)
        => writes = <<>> /\ ~dirty

-----------------------------------------------------------------------------
(* Properties of BmpImage::from_bytes (SpecBmp)                             *)

Decoded == call.name = "BmpImage::from_bytes" /\ call.done

\* C13: for a well-formed uncompressed 24-bit bitmap of width w and height
\* h, from_bytes returns a buffer of exactly w*h*4 bytes in which output
\* pixel (x, y) is the three bytes of pixel x of source row y (top-down) or
\* h-1-y (bottom-up) followed by 255; an all-red source gives 0, 0, 255, 255
\* at every pixel.
C13_Decodes24BitRows ==
    (Decoded /\ call.f.defect = "none" /\ call.f.bits = 24
        /\ call.f.compression = u32(0))
        => LET f == call.f
               data == call.ret.v.data
           IN  /\ call.ret.ok
               /\ call.ret.v.width = u32(f.w)
               /\ call.ret.v.height = u32(f.h)
               /\ Len(data) = f.w * f.h * 4
               /\ \A x \in 0..(f.w - 1), y \in 0..(f.h - 1) :
                    LET r == IF f.top_down THEN y ELSE f.h - 1 - y
                        at == (y * f.w + x) * 4
                    IN  /\ \A c \in 0..2 :
                              data[at + c + 1] = source_byte(f.pattern, f.w, x, r, c)
                        /\ data[at + 4] = 255
                        /\ f.pattern = "red"
                              => SubSeq(data, at + 1, at + 4) = <<0, 0, 255, 255>>

C13_Witness ==
    /\ Decoded
    /\ call.f = [defect |-> "none", w |-> 1, h |-> 2, top_down |-> FALSE, bits |-> 24,
                 compression |-> u32(0), pattern |-> "index"]
    /\ call.ret.ok
    /\ call.ret.v.data = <<17, 18, 19, 255, 1, 2, 3, 255>>

\* C14 as stated: a header that is otherwise in order and whose compression
\* field is not 0 gets the compressed-data error, and no image.
C14_NonZeroCompressionRejected ==
    (Decoded /\ call.f.defect = "none" /\ call.f.bits \in {24, 32}
        /\ call.f.compression # u32(0))
        => (~call.ret.ok /\ call.ret.err = "Compressed BMP not supported")

\* C14 as amended: a compression field other than 0 and 3 never yields an
\* image, and yields the compressed-data error when the file is long
\* enough, starts with BM, and has a DIB header size of 40 or more, nonzero
\* dimensions and one plane; a compression field of 3 is accepted and the
\* file is decoded as with 0.
C14_OnlyCompression0And3Accepted ==
    Decoded =>
        LET f == call.f
        IN  /\ f.compression \notin {u32(0), u32(3)}
                => /\ ~call.ret.ok
                   /\ f.defect \in {"none", "negative_width", "offset", "truncated"}
                        => call.ret.err = "Compressed BMP not supported"
            /\ f.compression = u32(3)
                => call.ret = from_bytes(bmp_file([f EXCEPT !.compression = u32(0)]))

C14_Witness ==
    /\ Decoded
    /\ call.f.defect = "none"
    /\ call.f.compression = u32(3)
    /\ call.f.bits = 32
    /\ call.ret.ok
    /\ Len(call.ret.v.data) = 4 * call.f.w * call.f.h

-----------------------------------------------------------------------------
(* Properties of the bitmap font (SpecBdf)                                  *)

\* the declared width of a character: the glyph's device width, or the
\* font bounding box width for a character without glyph
Declared(font, ch) ==
    IF ch \in DOMAIN font.glyphs THEN font.glyphs[ch].device_width
    ELSE font.bounding_box[1]

RECURSIVE SumDeclared(_, _, _, _)
SumDeclared(font, text, i, j) ==
    IF i > j THEN 0 ELSE Declared(font, text[i]) + SumDeclared(font, text, i + 1, j)

\* text[i..j] is a line of the text: it holds no newline and ends at the
\* text's ends or at newlines
IsLine(text, i, j) ==
    /\ \A k \in i..j : text[k] # NL
    /\ i = 1 \/ text[i - 1] = NL
    /\ j = Len(text) \/ text[j + 1] = NL

LinesOf(text) ==
    {l \in (1..(Len(text) + 1)) \X (0..Len(text)) :
        l[2] >= l[1] - 1 /\ IsLine(text, l[1], l[2])}

\* C15: on a parsed font, text_width returns the largest, over the lines of
\* the text, of the sum of the characters' declared widths.
C15_TextWidthIsWidestLine ==
    call.name = "Font::text_width" =>
        /\ \A l \in LinesOf(call.text) :
              SumDeclared(call.font, call.text, l[1], l[2]) <= call.ret
        /\ \E l \in LinesOf(call.text) :
              SumDeclared(call.font, call.text, l[1], l[2]) = call.ret

C15_Witness ==
    /\ call.name = "Font::text_width"
    /\ call.text = <<65, NL, 66>>
    /\ DOMAIN call.font.glyphs = {65}
    /\ call.font.glyphs[65].device_width = 2
    /\ call.font.glyphs[65].width = 1
    /\ call.font.bounding_box[1] = 3
    /\ call.ret = 3

\* C16: draw_text moves the pen by every character's declared width, so
\* after a text without newline that started at x the pen is at
\* x + text_width(text).
C16_PenAdvancesByDeclaredWidth ==
    (call.name = "Font::draw_text" /\ \A k \in 1..Len(call.text) : call.text[k] # NL)
        => /\ call.current_x = call.x + SumDeclared(call.font, call.text, 1, Len(call.text))
           /\ call.current_x = call.x + Font_text_width(call.font, call.text)

\* C17: every key of the parsed font's glyph table is a codepoint below 256
\* and is the encoding of the glyph stored under it.
C17_GlyphKeysAreEncodingsBelow256 ==
    Parsed =>
        \A k \in DOMAIN call.ret.v.glyphs :
            /\ k \in 0..255
            /\ call.ret.v.glyphs[k].encoding = k

C17_Witness ==
    /\ Parsed
    /\ \E i \in 1..Len(call.data) :
        /\ call.data[i] = Line("ENCODING", << <<"2", "5", "6">> >>)
        /\ i + 5 <= Len(call.data)
        /\ call.data[i + 5].key = "ENDCHAR"
        /\ i > 1
        /\ call.data[i - 1].key = "STARTCHAR"
    /\ DOMAIN call.ret.v.glyphs = {65}
    /\ call.ret.v.glyphs[65].bitmap = <<192>>

\* the lines of the glyph block that ends with the ENDCHAR of line j: from
\* the last STARTCHAR before j that no ENDCHAR follows, 0 when there is none
BlockStart(data, j) ==
    LET starts == {i \in 1..(j - 1) :
                      /\ data[i].key = "STARTCHAR"
                      /\ \A m \in (i + 1)..(j - 1) : data[m].key # "ENDCHAR"}
    IN  IF starts = {} THEN 0 ELSE CHOOSE i \in starts : \A m \in starts : m <= i

\* the encoding the block data[i..j] declares
BlockEncoding(data, i, j) ==
    LET encs == {m \in i..j : data[m].key = "ENCODING"}
    IN  IF encs = {} THEN 0
        ELSE parse_u32(data[CHOOSE m \in encs : \A n \in encs : n <= m].parts)

RECURSIVE RowBytes(_, _, _)
RowBytes(data, m, j) ==
    IF m >= j THEN <<>>
    ELSE (IF data[m].key = "" THEN hex_bytes(data[m].parts[1], 1) ELSE <<>>)
         \o RowBytes(data, m + 1, j)

\* the bytes of the hex rows between the block's BITMAP line and its ENDCHAR
OwnRows(data, i, j) ==
    LET bitmaps == {m \in i..j : data[m].key = "BITMAP"}
    IN  IF bitmaps = {} THEN <<>>
        ELSE RowBytes(data, (CHOOSE m \in bitmaps : \A n \in bitmaps : n <= m) + 1, j)

\* the ENDCHAR line whose block is stored under encoding k: the last one
BlockOf(data, k) ==
    LET ends == {j \in 1..Len(data) :
                    /\ data[j].key = "ENDCHAR"
                    /\ BlockStart(data, j) > 0
                    /\ BlockEncoding(data, BlockStart(data, j), j) = k}
    IN  CHOOSE j \in ends : \A n \in ends : n <= j

\* C22: every glyph of the parsed font holds exactly the bytes of the hex
\* rows between its own BITMAP and ENDCHAR lines, at least
\* height * ceil(width / 8) of them, and Glyph::draw of it does not index past
\* the end of the bitmap.
C22_BitmapCoversGlyph ==
    /\ Parsed =>
        \A k \in DOMAIN call.ret.v.glyphs :
            LET glyph == call.ret.v.glyphs[k]
                j == BlockOf(call.data, k)
            IN  /\ glyph.bitmap = OwnRows(call.data, BlockStart(call.data, j), j)
                /\ Len(glyph.bitmap) >= glyph.height * ((glyph.width + 7) \div 8)
    /\ call.name = "Glyph::draw" => ~call.panicked

\* the advance text_width adds for a character: that of its cached glyph
Advance(ch, size) ==
    IF contains_key(cache, <<ch, size>>) THEN cache[<<ch, size>>].advance ELSE 0

RECURSIVE SumAdvance(_, _, _, _)
SumAdvance(text, size, i, j) ==
    IF i > j THEN 0 ELSE Advance(text[i], size) + SumAdvance(text, size, i + 1, j)

\* C18: on a text with newlines, TtfFont::text_width returns the width of
\* the widest line, not the sum of the lines' widths.
C18_TextWidthIsWidestLine ==
    (ttf.name = "text_width" /\ \E k \in DOMAIN ttf.text : ttf.text[k] = NL) =>
        /\ \A l \in LinesOf(ttf.text) :
              SumAdvance(ttf.text, ttf.size, l[1], l[2]) <= ttf.ret
        /\ \E l \in LinesOf(ttf.text) :
              SumAdvance(ttf.text, ttf.size, l[1], l[2]) = ttf.ret

-----------------------------------------------------------------------------
(* Properties of draw_ellipse (SpecEllipse)                                  *)

\* C20: every call of draw_ellipse comes to an end, whatever rx and ry are,
\* zero and negative values included.
C20_DrawEllipseTerminates ==
    (call.name = "draw_ellipse")
        ~> (call.name = "draw_ellipse" /\ call.pc \in {"returned", "panicked"})

====
